---- MODULE Spec2Model ----
(***************************************************************************)
(* A model of qulacs-visualizer: the matplotlib drawer                     *)
(* (qulacsvis/visualization/matplotlib.py), the LaTeX gate-name table      *)
(* (qulacsvis/utils/gate.py) and the LaTeX compiler wrapper                *)
(* (qulacsvis/visualization/latex.py).                                     *)
(*                                                                         *)
(* Python lists are sequences (index 0 of the code is index 1 here; the    *)
(* operators Row and Cell take the code's 0-based indices).  Optional[X]   *)
(* is a sequence of length 0 (None) or 1 (the value).  Floats are fixed    *)
(* point: every length of the code is a multiple of 1/20, and a length v   *)
(* is the integer 20*v.                                                    *)
(***************************************************************************)
EXTENDS Integers, Sequences, FiniteSets, TLC

VARIABLES
    circuit,          \* MPLCircuitlDrawer._circuit
    circuit_data,     \* MPLCircuitlDrawer._circuit_data
    pc,               \* where the drawer is: new, constructed, rows, cells, returned, raised
    draw_i,           \* draw's loop variable i (the row being drawn)
    draw_j,           \* draw's loop variable j (the cell of the row being drawn)
    max_line_length,  \* draw's local of that name
    ax,               \* what has been added to self._ax, in order: [at, prim]
    error,            \* the exception draw ended with, or NoError
    call              \* the arguments of a direct call of a drawing method, or NoCall

drawer_vars ==
    <<circuit, circuit_data, pc, draw_i, draw_j, max_line_length, ax, error, call>>

VARIABLES
    gatestr_map,         \* gate.py's module-level table __TO_LATEX_STYLE_GATESTR_MAP
    latex_calls,         \* the calls of to_latex_style so far: [gate_name, error, value]
    pdflatex_installed,  \* the host: whether launching pdflatex finds an executable
    inits,               \* the calls of LatexCompiler() so far: [launch, raised]
    lpc,                 \* where compile is: idle, open_tex, run, handler, exit_tmp,
                         \* returned, raised
    job,                 \* compile's arguments: [code, filename]
    tmpdir,              \* whether compile's temporary directory exists
    tmp_files,           \* the files in it: <<name, content>>
    log,                 \* latex_error.log in the working directory: None or its content
    log_entry,           \* latex_error.log as it was when the current compile began
    exc,                 \* the exception compile is raising, or NoError
    proc,                \* the finished pdflatex run of this compile: None or
                         \* [returncode, stdout]
    ncompile             \* the calls of compile so far

latex_vars ==
    <<gatestr_map, latex_calls, pdflatex_installed, inits, lpc, job, tmpdir, tmp_files,
      log, log_entry, exc, proc, ncompile>>

vars == <<drawer_vars, latex_vars>>

----------------------------------------------------------------------------
(* Bounds of the model. *)

NQubits == 3        \* qubits of an input circuit
MaxGates == 2       \* gates of an input circuit
MaxRows == 2        \* rows of a grid handed to draw
MaxCells == 2       \* cells of a grid handed to draw, over all its rows
MaxGeomRow == 3     \* row of a gate drawn by a direct call
MaxGeomCol == 2     \* column of a gate drawn by a direct call
MaxSize == 3        \* rows of a gate drawn by a direct call
MaxCalls == 2       \* calls of to_latex_style
MaxInits == 2       \* calls of LatexCompiler()
MaxCompiles == 2    \* calls of compile

----------------------------------------------------------------------------
(* Values. *)

Scale == 4 * 5
GATE_DEFAULT_WIDTH == 1 * Scale
GATE_DEFAULT_HEIGHT == 1 * Scale
GATE_MARGIN_RIGHT == Scale \div 2

None == <<>>
Some(v) == <<v>>

NoError == [type |-> "none", msg |-> ""]
ValueError(msg) == [type |-> "ValueError", msg |-> msg]
NoCall == [gate |-> None, col |-> 0, row |-> 0]

Range(s) == {s[n] : n \in DOMAIN s}
Min(S) == CHOOSE m \in S : \A n \in S : m <= n
Max(S) == CHOOSE m \in S : \A n \in S : m >= n

GateData(text, raw_text, control_bit, size) ==
    [text |-> text, width |-> GATE_DEFAULT_WIDTH, height |-> GATE_DEFAULT_HEIGHT,
     raw_text |-> raw_text, control_bit |-> control_bit, size |-> size]

(* The code's 0-based indexing of a grid. *)
Row(grid, r) == grid[r + 1]
HasCell(grid, r, c) == r + 1 \in DOMAIN grid /\ c + 1 \in DOMAIN grid[r + 1]
Cell(grid, r, c) == grid[r + 1][c + 1]
Positions(grid) ==
    UNION {{<<r, c>> : c \in 0 .. Len(grid[r + 1]) - 1} : r \in 0 .. Len(grid) - 1}

----------------------------------------------------------------------------
(* gate.py: the table from a gate's name to its LaTeX string, as the set   *)
(* of its items.                                                           *)

TO_LATEX_STYLE_GATESTR_MAP ==
    { <<"", "">>, <<"I", "I">>, <<"X", "X">>, <<"Y", "Y">>, <<"Z", "Z">>, <<"H", "H">>,
      <<"S", "S">>, <<"Sdag", "S^\\dag">>, <<"T", "T">>, <<"Tdag", "T^\\dag">>,
      <<"sqrtX", "\\sqrt{X}">>, <<"sqrtXdag", "\\sqrt{X^\\dag}">>,
      <<"sqrtY", "\\sqrt{Y}">>, <<"sqrtYdag", "\\sqrt{Y^\\dag}">>,
      <<"Projection-0", "P0">>, <<"Projection-1", "P1">>,
      <<"U1", "U1">>, <<"U2", "U2">>, <<"U3", "U3">>,
      <<"X-rotation", "RX">>, <<"Y-rotation", "RY">>, <<"Z-rotation", "RZ">>,
      <<"Pauli", "Pauli">>, <<"Pauli-rotation", "PR">>, <<"CZ", "CZ">>,
      <<"CNOT", "\\targ">>, <<"SWAP", "SWAP">>, <<"Reflection", "Ref">>,
      <<"ReversibleBoolean", "ReB">>, <<"DenseMatrix", "DeM">>,
      <<"DinagonalMatrix", "DiM">>, <<"SparseMatrix", "SpM">>, <<"Generic gate", "GeG">>,
      <<"ParametricRX", "pRX">>, <<"ParametricRY", "pRY">>, <<"ParametricRZ", "pRZ">>,
      <<"ParametricPauliRotation", "pPR">> }

(* A dict: the function from its keys to their values. *)
Dict(items) ==
    [k \in {it[1] : it \in items} |-> (CHOOSE it \in items : it[1] = k)[2]]

(* latex.py before anything of it is called, on a host with pdflatex. *)
CompilerIdle ==
    /\ inits = <<>>
    /\ lpc = "idle"
    /\ job = None
    /\ tmpdir = FALSE
    /\ tmp_files = {}
    /\ log = None
    /\ log_entry = None
    /\ exc = NoError
    /\ proc = None
    /\ ncompile = 0

(* gate.py and latex.py while only the drawer runs: matplotlib.py imports  *)
(* neither, and the table is not loaded.                                   *)
LatexIdle ==
    /\ gatestr_map = None
    /\ latex_calls = <<>>
    /\ pdflatex_installed = TRUE
    /\ CompilerIdle

----------------------------------------------------------------------------
(* The input: a circuit is its gates in order, each with its name, its     *)
(* target qubits and its control qubits.                                   *)

Qubits == 0 .. NQubits - 1

SingleGates ==
    {[name |-> n, target |-> <<t>>, control |-> <<>>] : n \in {"H", "X"}, t \in Qubits}
CnotGates ==
    {[name |-> "CNOT", target |-> <<p[1]>>, control |-> <<p[2]>>] :
        p \in {q \in Qubits \X Qubits : q[1] # q[2]}}
DenseGates ==
    {[name |-> "DenseMatrix", target |-> [n \in 1 .. p[2] - p[1] + 1 |-> p[1] + n - 1],
      control |-> <<>>] : p \in {q \in Qubits \X Qubits : q[1] < q[2]}}
Gates == SingleGates \cup CnotGates \cup DenseGates

Circuits == UNION {[1 .. n -> Gates] : n \in 0 .. MaxGates}

----------------------------------------------------------------------------
(* parse_circuit: the grid the drawer is built on. *)

ghost == GateData("$ghost$", "ghost", None, 1)

parse_circuit_lost_ghost(c) ==
    << << GateData("$I$", "I", None, 1), GateData("$X$", "X", None, 1),
          GateData("$Y$", "Y", None, 1), GateData("$Z$", "Z", None, 1),
          GateData("$H$", "H", None, 1), GateData("$S$", "S", None, 1) >>,
       << GateData("$S^\\dagger$", "Sdag", None, 1), GateData("$T$", "T", None, 1),
          GateData("$T^\\dagger$", "X", None, 1) >>,
       << GateData("$CNOT$", "CNOT", Some(<<3, 4>>), 1),
          GateData("$X$", "X", None, 1),
          GateData("$DeM$", "DenseMatrix", None, 3) >>,
       << ghost, GateData("$CNOT$", "CNOT", Some(<<2, 4>>), 1) >>,
       << >> >>

parse_circuit(c) ==
    << << GateData("$I$", "I", None, 1), GateData("$X$", "X", None, 1),
          GateData("$Y$", "Y", None, 1), GateData("$Z$", "Z", None, 1),
          GateData("$H$", "H", None, 1), GateData("$S$", "S", None, 1) >>,
       << GateData("$S^\\dagger$", "Sdag", None, 1), GateData("$T$", "T", None, 1),
          GateData("$T^\\dagger$", "X", None, 1) >>,
       << GateData("$CNOT$", "CNOT", Some(<<3, 4>>), 1),
          ghost,
          GateData("$DeM$", "DenseMatrix", None, 3) >>,
       << ghost, GateData("$CNOT$", "CNOT", Some(<<2, 4>>), 1) >>,
       << >> >>

(* MPLCircuitlDrawer.__init__: keeps the circuit and parses it. *)
DrawerInit ==
    /\ pc = "new"
    /\ circuit_data' = parse_circuit(circuit)
    /\ pc' = "constructed"
    /\ UNCHANGED <<circuit, draw_i, draw_j, max_line_length, ax, error, call>>
    /\ UNCHANGED latex_vars

Init ==
    /\ circuit \in Circuits
    /\ circuit_data = <<>>
    /\ pc = "new"
    /\ draw_i = 0
    /\ draw_j = 0
    /\ max_line_length = 0
    /\ ax = <<>>
    /\ error = NoError
    /\ call = NoCall
    /\ LatexIdle

Next == DrawerInit

Spec == Init /\ [][Next]_vars

----------------------------------------------------------------------------
(* What the drawer adds to its axes.  One shape for every primitive:       *)
(*   text       at (x, y), fontsize a, the string s                        *)
(*   line       from (x, y) to (a, b), colour s                            *)
(*   rectangle  lower corner (x, y), width a, height b, face colour s      *)
(*   circle     centre (x, y), radius a, face colour s                     *)
(*   marker     at (x, y), the marker s                                    *)

Prim(kind, x, y, a, b, s) == [kind |-> kind, x |-> x, y |-> y, a |-> a, b |-> b, s |-> s]

_line(from_xy, to_xy, lc) == <<Prim("line", from_xy[1], from_xy[2], to_xy[1], to_xy[2], lc)>>

_text(x, y, text, fontsize) == <<Prim("text", x, y, fontsize, 0, text)>>

_gate(gate, col, row) ==
    LET ypos == col * (GATE_DEFAULT_HEIGHT + GATE_MARGIN_RIGHT)
        xpos == row * (GATE_DEFAULT_WIDTH + GATE_MARGIN_RIGHT)
    IN  <<Prim("rectangle", xpos - gate.width \div 2, ypos - gate.height \div 2,
               gate.width, gate.height, "b")>>
        \o _text(xpos, ypos, gate.text, 13)

_multi_gate_from_last_row(gate, col, row) ==
    LET multi_gate_size == gate.size
        ypos == (col + multi_gate_size - 1) * (GATE_DEFAULT_HEIGHT + GATE_MARGIN_RIGHT)
        xpos == row * (GATE_DEFAULT_WIDTH + GATE_MARGIN_RIGHT)
        multi_gate_height ==
            gate.height * multi_gate_size + GATE_MARGIN_RIGHT * (multi_gate_size - 1)
    IN  <<Prim("rectangle", xpos - gate.width \div 2, ypos - multi_gate_height \div 2,
               gate.width, multi_gate_height, "b")>>
        \o _text(xpos, ypos, gate.text, 13)

_multi_gate(gate, col, row) ==
    LET multi_gate_size == gate.size
        ypos == (col * (GATE_DEFAULT_HEIGHT + GATE_MARGIN_RIGHT)
                 + (col + multi_gate_size - 1) * (GATE_DEFAULT_HEIGHT + GATE_MARGIN_RIGHT))
                \div 2
        xpos == row * (GATE_DEFAULT_WIDTH + GATE_MARGIN_RIGHT)
        multi_gate_height ==
            gate.height * multi_gate_size + GATE_MARGIN_RIGHT * (multi_gate_size - 1)
    IN  <<Prim("rectangle", xpos - gate.width \div 2, ypos - multi_gate_height \div 2,
               gate.width, multi_gate_height, "b")>>
        \o _text(xpos, ypos, gate.text, 13)

(* The connector line and the control dot of each control row, in order. *)
ControlPrims(xpos, ypos, control_bit) ==
    [n \in 1 .. 2 * Len(control_bit) |->
        LET to_ypos == control_bit[(n + 1) \div 2] * (GATE_DEFAULT_HEIGHT + GATE_MARGIN_RIGHT)
        IN  IF n % 2 = 1
            THEN _line(<<xpos, ypos>>, <<xpos, to_ypos>>, "r")[1]
            ELSE Prim("circle", xpos, to_ypos, Scale \div 5, 0, "g")]

(* A drawing method's outcome: the exception it raised, and what it added  *)
(* to the axes before that.                                                *)
Outcome(err, added) == [error |-> err, added |-> added]

_cnot_checks_late(gate, col, row) ==
    LET ypos == col * (GATE_DEFAULT_HEIGHT + GATE_MARGIN_RIGHT)
        xpos == row * (GATE_DEFAULT_WIDTH + GATE_MARGIN_RIGHT)
        target == <<Prim("circle", xpos, ypos, (2 * Scale) \div 5, 0, "w"),
                    Prim("marker", xpos, ypos, 10, 3, "+")>>
    IN  IF gate.control_bit = None
        THEN Outcome(ValueError("control_bit is None"), target)
        ELSE Outcome(NoError, target \o ControlPrims(xpos, ypos, gate.control_bit[1]))

_cnot(gate, col, row) ==
    LET ypos == col * (GATE_DEFAULT_HEIGHT + GATE_MARGIN_RIGHT)
        xpos == row * (GATE_DEFAULT_WIDTH + GATE_MARGIN_RIGHT)
    IN  IF gate.control_bit = None
        THEN Outcome(ValueError("control_bit is None"), <<>>)
        ELSE IF gate.control_bit[1] = <<>>
        THEN Outcome(ValueError("control_bit is empty"), <<>>)
        ELSE Outcome(NoError,
                 <<Prim("circle", xpos, ypos, (2 * Scale) \div 5, 0, "w"),
                   Prim("marker", xpos, ypos, 10, 3, "+")>>
                 \o ControlPrims(xpos, ypos, gate.control_bit[1]))

(* The body of draw's inner loop for the cell gate at row i, index j. *)
draw_cell_ghost_drawn(gate, i, j) ==
    IF gate.raw_text = "CNOT" THEN _cnot(gate, i, j)
    ELSE IF gate.size > 1 THEN Outcome(NoError, _multi_gate(gate, i, j))
    ELSE Outcome(NoError, _gate(gate, i, j))

draw_cell(gate, i, j) ==
    IF gate.raw_text = "CNOT" THEN _cnot(gate, i, j)
    ELSE IF gate.raw_text = "ghost" THEN Outcome(NoError, <<>>)
    ELSE IF gate.size > 1 THEN Outcome(NoError, _multi_gate(gate, i, j))
    ELSE Outcome(NoError, _gate(gate, i, j))

(* What is added while draw stands at row i, index j (j = -1: the row's    *)
(* own label and wire).                                                    *)
At(i, j, prims) == [n \in DOMAIN prims |-> [at |-> <<i, j>>, prim |-> prims[n]]]

(* draw, up to its loop: the limits, and max_line_length, which is the     *)
(* max() of an empty list when the grid has no row.                        *)
DrawBegin ==
    /\ pc = "constructed"
    /\ \/ /\ circuit_data = <<>>
          /\ pc' = "raised"
          /\ error' = ValueError("max() arg is an empty sequence")
          /\ UNCHANGED max_line_length
       \/ /\ circuit_data # <<>>
          /\ max_line_length' =
                 Max({Len(circuit_data[r]) : r \in DOMAIN circuit_data})
                     * (GATE_DEFAULT_WIDTH + Scale \div 2) - Scale \div 2
          /\ pc' = "rows"
          /\ UNCHANGED error
    /\ draw_i' = 0
    /\ draw_j' = 0
    /\ UNCHANGED <<circuit, circuit_data, ax, call>>
    /\ UNCHANGED latex_vars

(* The outer loop's step into row i: the qubit label and the wire. *)
DrawRow ==
    /\ pc = "rows"
    /\ draw_i < Len(circuit_data)
    /\ LET line_ypos == draw_i * (GATE_DEFAULT_HEIGHT + Scale \div 2)
       IN  ax' = ax \o At(draw_i, -1,
                     _text(-2 * Scale, line_ypos, "$q_{" \o ToString(draw_i) \o "}$", 20)
                     \o _line(<<-1 * Scale, line_ypos>>, <<max_line_length, line_ypos>>, "k"))
    /\ pc' = "cells"
    /\ draw_j' = 0
    /\ UNCHANGED <<circuit, circuit_data, draw_i, max_line_length, error, call>>
    /\ UNCHANGED latex_vars

(* The inner loop's step over the cell at index j of row i. *)
DrawCell ==
    /\ pc = "cells"
    /\ draw_j < Len(Row(circuit_data, draw_i))
    /\ LET out == draw_cell(Cell(circuit_data, draw_i, draw_j), draw_i, draw_j)
       IN  /\ ax' = ax \o At(draw_i, draw_j, out.added)
           /\ error' = out.error
           /\ \/ /\ out.error = NoError
                 /\ pc' = "cells"
                 /\ draw_j' = draw_j + 1
              \/ /\ out.error # NoError
                 /\ pc' = "raised"
                 /\ draw_j' = draw_j
    /\ UNCHANGED <<circuit, circuit_data, draw_i, max_line_length, call>>
    /\ UNCHANGED latex_vars

(* The inner loop ends: on to the next row. *)
DrawRowEnd ==
    /\ pc = "cells"
    /\ draw_j = Len(Row(circuit_data, draw_i))
    /\ pc' = "rows"
    /\ draw_i' = draw_i + 1
    /\ UNCHANGED <<circuit, circuit_data, draw_j, max_line_length, ax, error, call>>
    /\ UNCHANGED latex_vars

(* The outer loop ends: draw returns the figure. *)
DrawReturn ==
    /\ pc = "rows"
    /\ draw_i = Len(circuit_data)
    /\ pc' = "returned"
    /\ UNCHANGED <<circuit, circuit_data, draw_i, draw_j, max_line_length, ax, error, call>>
    /\ UNCHANGED latex_vars

(* The grids draw is applied to: that of parse_circuit, and every grid of  *)
(* at most MaxRows rows and MaxCells cells in all, a cell being a ghost, a *)
(* one-row gate, a gate of several rows, or a CNOT whose control_bit is    *)
(* None, empty, any one row, or the last row and the first.               *)
DrawRows == 0 .. MaxRows - 1

ControlLists == {<<c>> : c \in DrawRows} \cup {<<MaxRows - 1, 0>>}

DrawCells ==
    {ghost, GateData("$H$", "H", None, 1),
     GateData("$CNOT$", "CNOT", None, 1), GateData("$CNOT$", "CNOT", Some(<<>>), 1)}
    \cup {GateData("$CNOT$", "CNOT", Some(s), 1) : s \in ControlLists}
    \cup {GateData("$DeM$", "DenseMatrix", None, k) : k \in 2 .. MaxRows}

RECURSIVE SumTo(_, _)
SumTo(lv, r) == IF r = 0 THEN 0 ELSE lv[r] + SumTo(lv, r - 1)

Splits(R, n) == {lv \in [1 .. R -> 0 .. n] : SumTo(lv, R) = n}

GridOf(lv, flat) ==
    [r \in DOMAIN lv |-> SubSeq(flat, SumTo(lv, r - 1) + 1, SumTo(lv, r))]

DrawGrids ==
    {parse_circuit(<<>>)} \cup
    UNION {UNION {{GridOf(lv, flat) : lv \in Splits(R, n), flat \in [1 .. n -> DrawCells]} :
                     R \in 0 .. MaxRows} :
              n \in 0 .. MaxCells}

InitDraw ==
    /\ circuit = <<>>
    /\ circuit_data \in DrawGrids
    /\ pc = "constructed"
    /\ draw_i = 0
    /\ draw_j = 0
    /\ max_line_length = 0
    /\ ax = <<>>
    /\ error = NoError
    /\ call = NoCall
    /\ LatexIdle

NextDraw == DrawBegin \/ DrawRow \/ DrawCell \/ DrawRowEnd \/ DrawReturn

SpecDraw == InitDraw /\ [][NextDraw]_vars

(* The drawing methods called on their own: _multi_gate for a gate of k    *)
(* rows at row i, column j, then _gate for a one-row gate at any cell.     *)
GeomRows == 0 .. MaxGeomRow
GeomCols == 0 .. MaxGeomCol

GeomMultiGate ==
    /\ pc = "call"
    /\ ax' = At(call.col, call.row, _multi_gate(call.gate[1], call.col, call.row))
    /\ pc' = "called"
    /\ UNCHANGED <<circuit, circuit_data, draw_i, draw_j, max_line_length, error, call>>
    /\ UNCHANGED latex_vars

GeomGate ==
    /\ pc = "called"
    /\ \E r \in 0 .. MaxGeomRow + MaxSize, c \in 0 .. MaxGeomCol + 1 :
           ax' = ax \o At(r, c, _gate(GateData("$H$", "H", None, 1), r, c))
    /\ pc' = "compared"
    /\ UNCHANGED <<circuit, circuit_data, draw_i, draw_j, max_line_length, error, call>>
    /\ UNCHANGED latex_vars

InitGeom ==
    /\ circuit = <<>>
    /\ circuit_data = <<>>
    /\ pc = "call"
    /\ draw_i = 0
    /\ draw_j = 0
    /\ max_line_length = 0
    /\ ax = <<>>
    /\ error = NoError
    /\ \E i \in GeomRows, j \in GeomCols, k \in 2 .. MaxSize :
           call = [gate |-> Some(GateData("$DeM$", "DenseMatrix", None, k)),
                   col |-> i, row |-> j]
    /\ LatexIdle

NextGeom == GeomMultiGate \/ GeomGate

SpecGeom == InitGeom /\ [][NextGeom]_vars

----------------------------------------------------------------------------
(* The drawer's state while only gate.py or latex.py is exercised. *)
DrawerIdle ==
    /\ circuit = <<>>
    /\ circuit_data = <<>>
    /\ pc = "new"
    /\ draw_i = 0
    /\ draw_j = 0
    /\ max_line_length = 0
    /\ ax = <<>>
    /\ error = NoError
    /\ call = NoCall

(* to_latex_style: the table's entry for gate_name; a missing key is a     *)
(* KeyError.  The outcome carries the table as the call leaves it.         *)
KeyError(key) == [type |-> "KeyError", msg |-> key]

Returned(value, map) == [error |-> NoError, value |-> Some(value), map |-> map]
Raised(err, map) == [error |-> err, value |-> None, map |-> map]

to_latex_style_setdefault(map, gate_name) ==
    IF gate_name \in DOMAIN map
    THEN Returned(map[gate_name], map)
    ELSE Returned("", [k \in DOMAIN map \cup {gate_name} |->
                          IF k = gate_name THEN "" ELSE map[k]])

to_latex_style(map, gate_name) ==
    IF gate_name \in DOMAIN map
    THEN Returned(map[gate_name], map)
    ELSE Raised(KeyError(gate_name), map)

(* The names to_latex_style is called with: every key of the table, the    *)
(* sentinel of the layout's placeholder cells, and names the table lacks.  *)
GateNames ==
    {it[1] : it \in TO_LATEX_STYLE_GATESTR_MAP}
    \cup {"ghost", "DiagonalMatrix", "Toffoli", "h", "RX"}

ToLatexStyle ==
    /\ Len(latex_calls) < MaxCalls
    /\ \E gate_name \in GateNames :
           LET out == to_latex_style(gatestr_map, gate_name)
           IN  /\ latex_calls' = Append(latex_calls,
                      [gate_name |-> gate_name, error |-> out.error, value |-> out.value])
               /\ gatestr_map' = out.map
    /\ UNCHANGED <<pdflatex_installed, inits, lpc, job, tmpdir, tmp_files, log, log_entry,
                   exc, proc, ncompile>>
    /\ UNCHANGED drawer_vars

(* gate.py is imported: its table is built. *)
InitGate ==
    /\ DrawerIdle
    /\ gatestr_map = Dict(TO_LATEX_STYLE_GATESTR_MAP)
    /\ latex_calls = <<>>
    /\ pdflatex_installed = TRUE
    /\ CompilerIdle

NextGate == ToLatexStyle

SpecGate == InitGate /\ [][NextGate]_vars

----------------------------------------------------------------------------
(* latex.py.  Launching pdflatex either finds no executable                *)
(* (FileNotFoundError) or runs it to an exit status.                       *)

Launch(installed, status) ==
    IF installed THEN [found |-> TRUE, returncode |-> status]
    ELSE [found |-> FALSE, returncode |-> 0]

has_pdflatex_checks_status(launch) == launch.found /\ launch.returncode = 0

(* has_pdflatex: True once pdflatex --version has run, whatever its        *)
(* status; False on FileNotFoundError.                                     *)
has_pdflatex(launch) == launch.found

(* LatexCompiler(): __init__ raises when has_pdflatex is False. *)
LatexCompilerInit ==
    /\ lpc \in {"idle", "returned", "raised"}
    /\ Len(inits) < MaxInits
    /\ \E status \in {0, 1} :
           LET launch == Launch(pdflatex_installed, status)
           IN  inits' = Append(inits, [launch |-> launch, raised |-> ~has_pdflatex(launch)])
    /\ UNCHANGED <<gatestr_map, latex_calls, pdflatex_installed, lpc, job, tmpdir,
                   tmp_files, log, log_entry, exc, proc, ncompile>>
    /\ UNCHANGED drawer_vars

(* An instance exists: some call of LatexCompiler() returned. *)
Constructed == \E n \in DOMAIN inits : ~inits[n].raised

(* The host gains or loses its pdflatex. *)
HostChange ==
    /\ pdflatex_installed' = ~pdflatex_installed
    /\ UNCHANGED <<gatestr_map, latex_calls, inits, lpc, job, tmpdir, tmp_files, log,
                   log_entry, exc, proc, ncompile>>
    /\ UNCHANGED drawer_vars

OSError(what) == [type |-> "OSError", msg |-> what]
FileNotFoundError == [type |-> "FileNotFoundError", msg |-> "pdflatex"]
(* The message of the code, without its backquotes. *)
CompilationFailed == [type |-> "Exception", msg |-> "pdflatex failed. See latex_error.log"]

Codes == {"\\documentclass{article}...", "\\documentclass{article}\\oops"}
Filenames == {"circuit", "a"}
Stdouts == {"! Undefined control sequence.", "! Emergency stop."}

(* compile is entered: the temporary directory is made, or making it       *)
(* fails and nothing was acquired.                                         *)
CompileBegin ==
    /\ Constructed
    /\ lpc \in {"idle", "returned", "raised"}
    /\ ncompile < MaxCompiles
    /\ ncompile' = ncompile + 1
    /\ \E code \in Codes, filename \in Filenames :
           job' = Some([code |-> code, filename |-> filename])
    /\ log_entry' = log
    /\ proc' = None
    /\ \/ /\ tmpdir' = TRUE
          /\ exc' = NoError
          /\ lpc' = "open_tex"
       \/ /\ tmpdir' = FALSE
          /\ exc' = OSError("mkdtemp")
          /\ lpc' = "raised"
    /\ UNCHANGED <<gatestr_map, latex_calls, pdflatex_installed, inits, tmp_files, log>>
    /\ UNCHANGED drawer_vars

(* The .tex file is opened for writing and the code written to it. *)
WriteTex ==
    /\ lpc = "open_tex"
    /\ LET tex == job[1].filename \o ".tex"
       IN  \/ /\ tmp_files' = {<<tex, job[1].code>>}
              /\ lpc' = "run"
              /\ UNCHANGED exc
           \/ /\ exc' = OSError("open")
              /\ lpc' = "exit_tmp"
              /\ UNCHANGED tmp_files
           \/ /\ tmp_files' = {<<tex, "">>}
              /\ exc' = OSError("write")
              /\ lpc' = "exit_tmp"
    /\ UNCHANGED <<gatestr_map, latex_calls, pdflatex_installed, inits, job, tmpdir, log,
                   log_entry, proc, ncompile>>
    /\ UNCHANGED drawer_vars

(* subprocess.run(check=True, capture_output=True): no executable, or a    *)
(* run that leaves its files in the output directory; a non-zero status    *)
(* is CalledProcessError, which compile catches.                           *)
RunPdflatex ==
    /\ lpc = "run"
    /\ \/ /\ ~pdflatex_installed
          /\ exc' = FileNotFoundError
          /\ lpc' = "exit_tmp"
          /\ UNCHANGED <<proc, tmp_files>>
       \/ /\ pdflatex_installed
          /\ \E out \in Stdouts :
                 /\ proc' = Some([returncode |-> 1, stdout |-> out])
                 /\ tmp_files' = tmp_files \cup {<<job[1].filename \o ".log", out>>}
          /\ lpc' = "handler"
          /\ UNCHANGED exc
       \/ /\ pdflatex_installed
          /\ \E out \in Stdouts :
                 /\ proc' = Some([returncode |-> 0, stdout |-> out])
                 /\ tmp_files' = tmp_files \cup {<<job[1].filename \o ".log", out>>,
                                                 <<job[1].filename \o ".pdf", "%PDF">>}
          /\ lpc' = "exit_tmp"
          /\ UNCHANGED exc
    /\ UNCHANGED <<gatestr_map, latex_calls, pdflatex_installed, inits, job, tmpdir, log,
                   log_entry, ncompile>>
    /\ UNCHANGED drawer_vars

(* The except clause: latex_error.log is opened "wb", err.output written   *)
(* to it, and the exception naming the log raised.  io is how the file     *)
(* system answers.                                                         *)
LogOutcome(l, e) == [log |-> l, exc |-> e]

except_CalledProcessError_unlogged(old_log, output, io) ==
    CASE io = "ok" -> LogOutcome(old_log, CompilationFailed)
      [] io = "open_fails" -> LogOutcome(old_log, OSError("open"))
      [] io = "write_fails" -> LogOutcome(Some(""), OSError("write"))

except_CalledProcessError(old_log, output, io) ==
    CASE io = "ok" -> LogOutcome(Some(output), CompilationFailed)
      [] io = "open_fails" -> LogOutcome(old_log, OSError("open"))
      [] io = "write_fails" -> LogOutcome(Some(""), OSError("write"))

HandleError ==
    /\ lpc = "handler"
    /\ \E io \in {"ok", "open_fails", "write_fails"} :
           LET out == except_CalledProcessError(log, proc[1].stdout, io)
           IN  log' = out.log /\ exc' = out.exc
    /\ lpc' = "exit_tmp"
    /\ UNCHANGED <<gatestr_map, latex_calls, pdflatex_installed, inits, job, tmpdir,
                   tmp_files, log_entry, proc, ncompile>>
    /\ UNCHANGED drawer_vars

(* The with statement is left, normally or by the exception pending:       *)
(* TemporaryDirectory.__exit__ removes the directory and what is in it.    *)
TmpState(exists, files) == [tmpdir |-> exists, tmp_files |-> files]

TemporaryDirectory_exit_on_success(exists, files, pending) ==
    IF pending = NoError THEN TmpState(FALSE, {}) ELSE TmpState(exists, files)

TemporaryDirectory_exit(exists, files, pending) == TmpState(FALSE, {})

ExitTmp ==
    /\ lpc = "exit_tmp"
    /\ LET left == TemporaryDirectory_exit(tmpdir, tmp_files, exc)
       IN  tmpdir' = left.tmpdir /\ tmp_files' = left.tmp_files
    /\ lpc' = IF exc = NoError THEN "returned" ELSE "raised"
    /\ UNCHANGED <<gatestr_map, latex_calls, pdflatex_installed, inits, job, log,
                   log_entry, exc, proc, ncompile>>
    /\ UNCHANGED drawer_vars

InitLatex ==
    /\ DrawerIdle
    /\ gatestr_map = None
    /\ latex_calls = <<>>
    /\ pdflatex_installed \in BOOLEAN
    /\ CompilerIdle

NextLatex ==
    \/ LatexCompilerInit
    \/ HostChange
    \/ CompileBegin
    \/ WriteTex
    \/ RunPdflatex
    \/ HandleError
    \/ ExitTmp

SpecLatex == InitLatex /\ [][NextLatex]_vars

----------------------------------------------------------------------------
(* The layout the grid is measured against. *)

IsReal(cell) == cell.raw_text # "ghost"

ControlRows(cell) == IF cell.control_bit = None THEN {} ELSE Range(cell.control_bit[1])

(* The rows a REAL cell at row a reserves: from the least to the greatest  *)
(* of its span a..a+size-1 and its control rows.                           *)
ReservedRowsOf(cell, a) ==
    LET R == (a .. a + cell.size - 1) \cup ControlRows(cell)
    IN  Min(R) .. Max(R)

RealPositions(grid) == {p \in Positions(grid) : IsReal(Cell(grid, p[1], p[2]))}

ReservedCells(grid, p) ==
    {<<r, p[2]>> : r \in ReservedRowsOf(Cell(grid, p[1], p[2]), p[1])}

(* Greedy leftmost-fit packing, in circuit order: the reference layout as  *)
(* the set of <<row, column, cell>> it fills.                              *)
DisplayText(name) ==
    CASE name = "DenseMatrix" -> "$DeM$"
      [] OTHER -> "$" \o name \o "$"

GateRows(g) ==
    LET R == Range(g.target) \cup Range(g.control) IN Min(R) .. Max(R)

RealCellOf(g) ==
    GateData(DisplayText(g.name), g.name,
             IF g.control = <<>> THEN None ELSE Some(g.control), Len(g.target))

RECURSIVE GreedyFrom(_, _, _, _)
GreedyFrom(gates, k, placed, nextFree) ==
    IF k > Len(gates) THEN placed
    ELSE LET g == gates[k]
             rows == GateRows(g)
             c == Max({nextFree[r] : r \in rows})
             anchor == Min(Range(g.target))
         IN  GreedyFrom(gates, k + 1,
                 placed \cup {<<r, c, IF r = anchor THEN RealCellOf(g) ELSE ghost>> :
                                r \in rows},
                 [r \in DOMAIN nextFree |-> IF r \in rows THEN c + 1 ELSE nextFree[r]])

GreedyLayout(gates) == GreedyFrom(gates, 1, {}, [r \in Qubits |-> 0])

Filled(grid) == {<<p[1], p[2], Cell(grid, p[1], p[2])>> : p \in Positions(grid)}

----------------------------------------------------------------------------
(* C1: in the grid parse_circuit returns, every row from the least to the  *)
(* greatest of a REAL cell's span and control rows has a cell in that      *)
(* cell's column: the REAL cell at its own row, a ghost cell at the others. *)
C1_SpanIntegrity ==
    pc = "constructed" =>
        \A p \in RealPositions(circuit_data) :
            \A r \in ReservedRowsOf(Cell(circuit_data, p[1], p[2]), p[1]) :
                /\ HasCell(circuit_data, r, p[2])
                /\ (r # p[1] => ~IsReal(Cell(circuit_data, r, p[2])))

(* C2: the grid parse_circuit returns is the greedy leftmost-fit layout of *)
(* the circuit's gates, taken in circuit order.                            *)
C2_GreedyLayout ==
    pc = "constructed" => Filled(circuit_data) = GreedyLayout(circuit)

(* C3: in the grid parse_circuit returns, no (row, column) position is     *)
(* reserved by two distinct gates.                                         *)
C3_NoOverlap ==
    pc = "constructed" =>
        \A p \in RealPositions(circuit_data) :
            \A q \in RealPositions(circuit_data) :
                p # q => ReservedCells(circuit_data, p) \cap ReservedCells(circuit_data, q) = {}

(* Two gates that each reserve several rows stand in the returned grid,    *)
(* one of them beside a gate of the same column.                           *)
C3_Witness ==
    /\ pc = "constructed"
    /\ \E p \in RealPositions(circuit_data) :
           /\ Cardinality(ReservedCells(circuit_data, p)) > 1
           /\ \E q \in RealPositions(circuit_data) : q # p /\ q[2] = p[2]
----------------------------------------------------------------------------
(* What draw has added, by the place of the loop that added it. *)

AddedAt(i, j) == {n \in DOMAIN ax : ax[n].at = <<i, j>>}
KindAt(i, j, kind) == {n \in AddedAt(i, j) : ax[n].prim.kind = kind}

IsTargetGlyph(p) == p.kind = "circle" /\ p.s = "w"
IsControlDot(p) == p.kind = "circle" /\ p.s = "g"
GateDrawingsAt(i, j) ==
    {n \in AddedAt(i, j) : ax[n].prim.kind = "rectangle" \/ IsTargetGlyph(ax[n].prim)}

(* The inner loop's body has run for the cell at row r, index c, and has   *)
(* not raised.                                                             *)
Passed(r, c) == r < draw_i \/ (r = draw_i /\ pc \in {"cells", "raised"} /\ c < draw_j)
(* The outer loop's body has begun for row r. *)
Begun(r) == r < draw_i \/ (r = draw_i /\ pc \in {"cells", "raised"})

LacksControls(cell) == cell.control_bit = None \/ cell.control_bit = Some(<<>>)

GhostsUndrawn ==
    \A p \in Positions(circuit_data) :
        ~IsReal(Cell(circuit_data, p[1], p[2])) => AddedAt(p[1], p[2]) = {}

RowOutput(r) ==
    /\ Cardinality(KindAt(r, -1, "text")) = 1
    /\ Cardinality(KindAt(r, -1, "line")) = 1
    /\ Cardinality(AddedAt(r, -1)) = 2

(* C4, as stated: when draw ends, no ghost cell has any primitive, every   *)
(* other cell has exactly one gate drawing, and every row has one wire     *)
(* line and one qubit label and nothing else.                              *)
C4_EveryCellDrawn ==
    pc \in {"returned", "raised"} =>
        /\ GhostsUndrawn
        /\ \A p \in Positions(circuit_data) :
               IsReal(Cell(circuit_data, p[1], p[2]))
                   => Cardinality(GateDrawingsAt(p[1], p[2])) = 1
        /\ \A r \in 0 .. Len(circuit_data) - 1 : RowOutput(r)

(* C4, amended: draw adds nothing for a ghost cell; every other cell has   *)
(* exactly one gate drawing once the loop has passed it and none before;   *)
(* every row begun has one label and one wire line and nothing else; draw  *)
(* raises only on a grid without rows or at a CNOT cell without control    *)
(* rows, and otherwise returns having passed every cell.                   *)
C4_DrawnUnlessRaised ==
    /\ GhostsUndrawn
    /\ \A p \in Positions(circuit_data) :
           IsReal(Cell(circuit_data, p[1], p[2]))
               => Cardinality(GateDrawingsAt(p[1], p[2]))
                      = IF Passed(p[1], p[2]) THEN 1 ELSE 0
    /\ \A r \in 0 .. Len(circuit_data) - 1 :
           IF Begun(r) THEN RowOutput(r) ELSE AddedAt(r, -1) = {}
    /\ \A n \in DOMAIN ax :
           \/ ax[n].at \in Positions(circuit_data)
           \/ ax[n].at[2] = -1 /\ ax[n].at[1] \in 0 .. Len(circuit_data) - 1
    /\ pc = "returned" =>
           \A p \in Positions(circuit_data) : Passed(p[1], p[2])
    /\ pc = "raised" =>
           \/ circuit_data = <<>>
           \/ /\ HasCell(circuit_data, draw_i, draw_j)
              /\ Cell(circuit_data, draw_i, draw_j).raw_text = "CNOT"
              /\ LacksControls(Cell(circuit_data, draw_i, draw_j))

(* draw has returned from a grid with a ghost cell, a drawn cell, an       *)
(* empty row and a longer row.                                             *)
C4_Witness ==
    /\ pc = "returned"
    /\ \E p \in Positions(circuit_data) : ~IsReal(Cell(circuit_data, p[1], p[2]))
    /\ \E p \in Positions(circuit_data) :
           /\ IsReal(Cell(circuit_data, p[1], p[2]))
           /\ Cardinality(GateDrawingsAt(p[1], p[2])) = 1
    /\ \E r \in DOMAIN circuit_data : circuit_data[r] = <<>>
    /\ \E r \in DOMAIN circuit_data : Len(circuit_data[r]) > 1

(* C5: a CNOT cell whose control_bit is None or empty is never passed:     *)
(* draw raises ValueError at it with nothing added for it; a CNOT cell     *)
(* that is passed has one target glyph and, for each control row, exactly  *)
(* one connector line to that row and one control dot on it, and no other  *)
(* line or dot.                                                            *)
C5_Cnot ==
    /\ \A p \in Positions(circuit_data) :
           LET gate == Cell(circuit_data, p[1], p[2])
               ypos == p[1] * (GATE_DEFAULT_HEIGHT + GATE_MARGIN_RIGHT)
               xpos == p[2] * (GATE_DEFAULT_WIDTH + GATE_MARGIN_RIGHT)
               here == AddedAt(p[1], p[2])
           IN  (gate.raw_text = "CNOT" /\ Passed(p[1], p[2])) =>
                   /\ ~LacksControls(gate)
                   /\ Cardinality({n \in here : IsTargetGlyph(ax[n].prim)
                                       /\ ax[n].prim.x = xpos /\ ax[n].prim.y = ypos}) = 1
                   /\ Cardinality({n \in here : IsTargetGlyph(ax[n].prim)}) = 1
                   /\ \A c \in ControlRows(gate) :
                          LET to_ypos == c * (GATE_DEFAULT_HEIGHT + GATE_MARGIN_RIGHT)
                          IN  /\ Cardinality({n \in here :
                                     ax[n].prim = Prim("line", xpos, ypos, xpos, to_ypos, "r")}) = 1
                              /\ Cardinality({n \in here : /\ IsControlDot(ax[n].prim)
                                                            /\ ax[n].prim.x = xpos
                                                            /\ ax[n].prim.y = to_ypos}) = 1
                   /\ Cardinality(KindAt(p[1], p[2], "line")) = Cardinality(ControlRows(gate))
                   /\ Cardinality({n \in here : IsControlDot(ax[n].prim)})
                          = Cardinality(ControlRows(gate))
    /\ (pc = "raised" /\ circuit_data # <<>>) =>
           /\ Cell(circuit_data, draw_i, draw_j).raw_text = "CNOT"
           /\ LacksControls(Cell(circuit_data, draw_i, draw_j))
           /\ error.type = "ValueError"
           /\ AddedAt(draw_i, draw_j) = {}
    /\ (pc = "cells" /\ HasCell(circuit_data, draw_i, draw_j)) =>
           AddedAt(draw_i, draw_j) = {}

(* draw has drawn a CNOT cell with two control rows and then raised at a   *)
(* CNOT cell whose control_bit is None or empty.                           *)
C5_Witness ==
    /\ pc = "raised"
    /\ error.type = "ValueError"
    /\ HasCell(circuit_data, draw_i, draw_j)
    /\ LacksControls(Cell(circuit_data, draw_i, draw_j))
    /\ \E p \in Positions(circuit_data) :
           /\ Cell(circuit_data, p[1], p[2]).raw_text = "CNOT"
           /\ Passed(p[1], p[2])
           /\ Cardinality(ControlRows(Cell(circuit_data, p[1], p[2]))) = 2

----------------------------------------------------------------------------
(* The unit box _gate draws at row r, column c, and how two boxes lie. *)
UnitBox(r, c) == _gate(GateData("$H$", "H", None, 1), r, c)[1]
Inside(u, m) ==
    /\ m.x <= u.x /\ u.x + u.a <= m.x + m.a
    /\ m.y <= u.y /\ u.y + u.b <= m.y + m.b
Meets(u, m) ==
    /\ u.x < m.x + m.a /\ m.x < u.x + u.a
    /\ u.y < m.y + m.b /\ m.y < u.y + u.b

(* C10: the box _multi_gate draws for a gate of k > 1 rows at row i,       *)
(* column j has height height*k + margin*(k-1); its top edge is that of    *)
(* the unit box _gate draws at (i, j), its bottom edge that of the unit    *)
(* box at (i+k-1, j), its sides those of column j; every coordinate is a   *)
(* multiple of 1/4; it holds the unit box of each of the rows i..i+k-1 of  *)
(* column j and meets no part of the unit box of any other cell.           *)
C10_MultiGateBox ==
    pc \in {"called", "compared"} =>
        LET gate == call.gate[1]
            i == call.col
            j == call.row
            k == gate.size
            box == ax[1].prim
        IN  /\ ax[1].at = <<i, j>>
            /\ box.kind = "rectangle"
            /\ box.b = gate.height * k + GATE_MARGIN_RIGHT * (k - 1)
            /\ box.y = UnitBox(i, j).y
            /\ box.y + box.b = UnitBox(i + k - 1, j).y + UnitBox(i + k - 1, j).b
            /\ box.x = UnitBox(i, j).x
            /\ box.a = UnitBox(i, j).a
            /\ \A v \in {box.x, box.y, box.a, box.b} : (4 * v) % Scale = 0
            /\ pc = "compared" =>
                   LET r == ax[3].at[1]
                       c == ax[3].at[2]
                       unit == ax[3].prim
                   IN  /\ unit.kind = "rectangle"
                       /\ IF c = j /\ r \in i .. i + k - 1
                          THEN Inside(unit, box)
                          ELSE ~Meets(unit, box)

(* A box of three rows has been drawn below the first row, and then the   *)
(* unit box of its last row.                                               *)
C10_Witness ==
    /\ pc = "compared"
    /\ call.gate[1].size = 3
    /\ call.col > 0
    /\ ax[3].at = <<call.col + 2, call.row>>
----------------------------------------------------------------------------
(* The string the table of gate.py holds for gate_name. *)
Expected(gate_name) ==
    (CHOOSE it \in TO_LATEX_STYLE_GATESTR_MAP : it[1] = gate_name)[2]

(* C6: every call of to_latex_style with a name of the table returns the   *)
(* table's string for it (H, RX, \targ, PR, pRZ for the names the          *)
(* interface lists); every call with another name, the ghost sentinel      *)
(* among them, raises KeyError and returns nothing; the table stays as it  *)
(* was.                                                                    *)
C6_ToLatexStyle ==
    /\ gatestr_map = Dict(TO_LATEX_STYLE_GATESTR_MAP)
    /\ \A n \in DOMAIN latex_calls :
           LET c == latex_calls[n]
           IN  /\ (\E it \in TO_LATEX_STYLE_GATESTR_MAP : it[1] = c.gate_name)
                      => c.error = NoError /\ c.value = Some(Expected(c.gate_name))
               /\ (\A it \in TO_LATEX_STYLE_GATESTR_MAP : it[1] # c.gate_name)
                      => c.error = KeyError(c.gate_name) /\ c.value = None
               /\ c.gate_name = "H" => c.value = Some("H")
               /\ c.gate_name = "X-rotation" => c.value = Some("RX")
               /\ c.gate_name = "CNOT" => c.value = Some("\\targ")
               /\ c.gate_name = "Pauli-rotation" => c.value = Some("PR")
               /\ c.gate_name = "ParametricRZ" => c.value = Some("pRZ")
               /\ c.gate_name = "ghost" => c.error.type = "KeyError"

(* to_latex_style has been called with CNOT and with the ghost sentinel. *)
C6_Witness ==
    /\ \E n \in DOMAIN latex_calls :
           latex_calls[n].gate_name = "CNOT" /\ latex_calls[n].value = Some("\\targ")
    /\ \E n \in DOMAIN latex_calls :
           latex_calls[n].gate_name = "ghost" /\ latex_calls[n].error.type = "KeyError"
----------------------------------------------------------------------------
(* compile has ended. *)
Ended == lpc \in {"returned", "raised"}

(* C7, as stated: a compile whose pdflatex exited non-zero ends raising    *)
(* the compilation error with the captured output in latex_error.log; one  *)
(* whose pdflatex exited zero returns with latex_error.log as it was.      *)
C7_FailureAlwaysLogged ==
    (Ended /\ proc # None) =>
        IF proc[1].returncode # 0
        THEN lpc = "raised" /\ exc = CompilationFailed /\ log = Some(proc[1].stdout)
        ELSE lpc = "returned" /\ log = log_entry

(* C7, amended: after a non-zero exit compile ends raising; it raises the  *)
(* compilation error only with the captured output already in              *)
(* latex_error.log, and otherwise the OSError of the log's open or write,  *)
(* the log then as it was or truncated; after a zero exit it returns with  *)
(* latex_error.log as it was.                                              *)
C7_FailureLoggedOrOSError ==
    (lpc \in {"exit_tmp", "returned", "raised"} /\ proc # None) =>
        IF proc[1].returncode # 0
        THEN /\ exc # NoError
             /\ Ended => lpc = "raised"
             /\ exc = CompilationFailed => log = Some(proc[1].stdout)
             /\ exc # CompilationFailed =>
                    /\ exc.type = "OSError"
                    /\ log \in {log_entry, Some("")}
        ELSE /\ exc = NoError
             /\ Ended => lpc = "returned"
             /\ log = log_entry

(* A compile has ended raising the compilation error, its output written   *)
(* over an older latex_error.log.                                          *)
C7_Witness ==
    /\ lpc = "raised"
    /\ exc = CompilationFailed
    /\ proc # None
    /\ log = Some(proc[1].stdout)
    /\ log_entry # None
    /\ log_entry # log

(* C8: outside compile's with statement there is no temporary directory    *)
(* and no file of it, however compile ended.                               *)
C8_TmpReleased ==
    lpc \in {"idle", "returned", "raised"} => tmpdir = FALSE /\ tmp_files = {}

(* A compile that made its directory and wrote its .tex file has ended     *)
(* because pdflatex was gone when it was launched.                         *)
C8_Witness ==
    /\ lpc = "raised"
    /\ exc = FileNotFoundError
    /\ ncompile > 0

(* C9: a call of LatexCompiler() raises exactly when launching pdflatex    *)
(* found no executable, whatever the status of a probe that ran; compile   *)
(* runs only once some call has returned; and until compile is called      *)
(* there is no temporary directory, no file and no pdflatex run.           *)
C9_Constructor ==
    /\ \A n \in DOMAIN inits : inits[n].raised <=> ~inits[n].launch.found
    /\ (lpc # "idle" \/ ncompile > 0) =>
           \E n \in DOMAIN inits : inits[n].launch.found /\ ~inits[n].raised
    /\ ncompile = 0 =>
           /\ lpc = "idle"
           /\ tmpdir = FALSE /\ tmp_files = {}
           /\ log = None
           /\ proc = None

(* One call of LatexCompiler() has raised, another has returned after a    *)
(* probe of non-zero status, and compile is running.                       *)
C9_Witness ==
    /\ \E n \in DOMAIN inits : inits[n].raised
    /\ \E n \in DOMAIN inits : ~inits[n].raised /\ inits[n].launch.returncode = 1
    /\ lpc = "run"

====
